---- MODULE Spec2Model ----
(***************************************************************************)
(* ClipboardPhotoEditor: the Drawer's linear undo history, the Cropper's   *)
(* debounced size estimate and the crop transform, as state machines.      *)
(*                                                                         *)
(* One React component is one set of state variables.  A handler is one    *)
(* action: the state updates it enqueues, the re-render and the effects    *)
(* that re-run because of them happen in the same step.  What a handler    *)
(* leaves for later (an Image whose onload has not fired, a canvas.toBlob  *)
(* whose callback has not run, a setTimeout) is kept in a bag or a set     *)
(* together with the values its closure captured, and completes in a step  *)
(* of its own, in any order.                                               *)
(***************************************************************************)
EXTENDS Integers, Sequences, FiniteSets, Bags, TLC

VARIABLES
    image,                  \* useState(null): the source image (object URL)
    crop,                   \* useState(): the crop region, display pixels
    imageRef,               \* useState(null): the mounted <img> element
    outputSizes,            \* useState({png:'0.00', jpg:'0.00'})
    jpegQuality,            \* useState(90)
    canvasRef,              \* Drawer: canvasRef.current, the mounted <canvas>
    canvasPx,               \* Drawer: the raster of the mounted canvas
    isDrawing,              \* Drawer: useState(false)
    drawingHistory,         \* Drawer: useState([]), data URLs
    currentHistoryIndex,    \* Drawer: useState(-1), 0-based as in the code
    imageLoads,             \* Drawer: source Images whose onload is pending
    undoLoads,              \* Drawer: undo's Images whose onload is pending
    encodes,                \* getOutputSizes calls in flight
    timers,                 \* Cropper: pending setTimeout callbacks
    debounceTimeoutRef,     \* Cropper: useRef(null), the last timer id
    elemSrc,                \* Cropper: the image each <img> element shows
    lastOp,                 \* history variable: the handler that ran last
    run,                    \* history variable: load, strokes, undos so far
    debounce,               \* history variable: time since the last change
    lastStarted,            \* history variable: the newest size recompute
    call,                   \* the last crop transform call and its result
    limits                  \* the bounds this behaviour is explored within

vars == <<image, crop, imageRef, outputSizes, jpegQuality, canvasRef, canvasPx,
          isDrawing, drawingHistory, currentHistoryIndex, imageLoads, undoLoads,
          encodes, timers, debounceTimeoutRef, elemSrc, lastOp, run,
          debounce, lastStarted, call, limits>>

drawerVars == <<canvasRef, canvasPx, isDrawing, drawingHistory,
                currentHistoryIndex, imageLoads, undoLoads, run>>

cropperVars == <<timers, debounceTimeoutRef, elemSrc, debounce, lastStarted>>

(***************************************************************************)
(* Bounds of the model.                                                    *)
(***************************************************************************)
MaxSegments == 1        \* stroke segments on the canvas
MaxHistory == 2         \* snapshots in drawingHistory
MaxPending == 1         \* callbacks pending at once: loads and encodes

\* the bounds of the specifications of the handlers, and the same bounds one
\* step wider, for the specifications of the races between callbacks
Limits == [history |-> MaxHistory, pending |-> MaxPending]
WideLimits == [history |-> MaxHistory + 1, pending |-> MaxPending + 1]

(***************************************************************************)
(* Program constants.                                                      *)
(***************************************************************************)
DefaultJpegQuality == 90
MinJpegQuality == 10
DebounceMs == 200

NoImage == "null"
NullRef == 0
Undefined == [width |-> 0, height |-> 0, x |-> 0, y |-> 0, set |-> FALSE]
Images == {"imageA", "imageB"}
Points == {"p"}
Qualities == {DefaultJpegQuality, MinJpegQuality}
ZeroMB == [format |-> "none", mb |-> "0.00"]
ZeroSizes == [png |-> ZeroMB, jpg |-> ZeroMB]
ElemIds == {1, 2}
NoElements == [e \in ElemIds |-> NoImage]

\* no <img> element, and no canvas (createCroppedCanvas returning null)
NullElement ==
    [src |-> NoImage, naturalWidth |-> 0, naturalHeight |-> 0,
     width |-> 0, height |-> 0]
NullCanvas == [width |-> 0, height |-> 0, src |-> NoImage, crop |-> Undefined]

\* what a debounce timer's callback closes over: the updateOutputSizes of
\* the render that scheduled it
Closure(ref, c, q) == [imageRef |-> ref, crop |-> c, quality |-> q]

NoDebounce ==
    [since |-> 0, runs |-> 0, burst |-> 0, ranAt |-> 0,
     ranWith |-> Closure(NullRef, Undefined, DefaultJpegQuality)]
NoCall ==
    [variant |-> "none", path |-> "none", el |-> NullElement,
     crop |-> Undefined, out |-> NullCanvas]

(***************************************************************************)
(* Rasters and their encodings.                                            *)
(***************************************************************************)
\* a canvas right after it is mounted: no image drawn, no stroke
BlankRaster == [base |-> NoImage, segs |-> <<>>]

\* context.drawImage(img, 0, 0) after canvas.width = img.width cleared it
ImageRaster(img) == [base |-> img, segs |-> <<>>]

\* contextRef.current.lineTo(x, y); stroke()
StrokeSegment(px, p) == [px EXCEPT !.segs = Append(@, p)]

\* canvas.toDataURL(): a PNG data URL of the raster
toDataURL(px) == [mime |-> "image/png", data |-> px]

\* the pixels an Image decodes from a data URL
DecodeDataURL(url) == url.data

\* (blob.size / (1024 * 1024)).toFixed(2) of canvas.toBlob(format, quality):
\* the size is a function of the raster and the format, and for JPEG of
\* the quality
sizeInMB(px, format, quality) ==
    IF format = "image/png"
    THEN [format |-> format, px |-> px, quality |-> 0]
    ELSE [format |-> format, px |-> px, quality |-> quality]

\* getOutputSizes(canvas, jpegQuality)
getOutputSizes(px, quality) ==
    [png |-> sizeInMB(px, "image/png", quality),
     jpg |-> sizeInMB(px, "image/jpeg", quality)]

\* the asynchronous work that has been started and has not completed
Pending ==
    BagCardinality(imageLoads) + BagCardinality(undoLoads)
        + BagCardinality(encodes)

AddTo(bag, x) == bag (+) SetToBag({x})
RemoveFrom(bag, x) == bag (-) SetToBag({x})
BagIsEmpty(bag) == BagToSet(bag) = {}

(***************************************************************************)
(* The Drawer.                                                             *)
(***************************************************************************)
NoRun == [phase |-> "none", snaps |-> <<>>, undos |-> 0]

\* saveToHistory with an index that forgets the "- 1"
saveToHistory_OffByOne(hist, idx, ref, px) ==
    IF ref = NullRef
    THEN [history |-> drawingHistory, index |-> currentHistoryIndex]
    ELSE LET newHistory == Append(SubSeq(hist, 1, idx + 1), toDataURL(px))
         IN  [history |-> newHistory, index |-> Len(newHistory)]

\* saveToHistory that pushes without slicing off the redo entries
saveToHistory_NoTruncate(hist, idx, ref, px) ==
    IF ref = NullRef
    THEN [history |-> drawingHistory, index |-> currentHistoryIndex]
    ELSE LET newHistory == Append(hist, toDataURL(px))
         IN  [history |-> newHistory, index |-> idx + 1]

\* saveToHistory as the closure of one render sees it: hist and idx are the
\* drawingHistory and currentHistoryIndex of that render, ref and px the
\* canvas at the time of the call
saveToHistory(hist, idx, ref, px) ==
    IF ref = NullRef
    THEN [history |-> drawingHistory, index |-> currentHistoryIndex]
    ELSE LET newHistory == Append(SubSeq(hist, 1, idx + 1), toDataURL(px))
         IN  [history |-> newHistory, index |-> Len(newHistory) - 1]

\* the hook's updateOutputSizes, with the jpegQuality its closure captured
updateOutputSizes(ref, px, quality) ==
    IF ref = NullRef
    THEN outputSizes' = ZeroSizes /\ UNCHANGED encodes
    ELSE /\ encodes' = AddTo(encodes, [px |-> px, quality |-> quality])
         /\ UNCHANGED outputSizes

\* a <canvas> element no pending closure still refers to
FreshCanvas ==
    LET held == {l.canvas : l \in BagToSet(imageLoads)}
    IN  CHOOSE c \in 1 .. (Cardinality(held) + 1) :
            c \notin held /\ \A d \in 1 .. (c - 1) : d \in held

\* handlePaste / handleFileUpload with an image payload: setImage(url); the
\* canvas mounts if there was none; the [image] effect starts loading the
\* image and its onload keeps this render's saveToHistory and
\* updateOutputSizes
DrawerPaste(img) ==
    /\ BagIsEmpty(imageLoads)
    /\ Pending < limits.pending
    /\ currentHistoryIndex + 2 <= limits.history
    /\ LET ref == IF image = NoImage THEN FreshCanvas ELSE canvasRef
       IN  /\ image' = img
           /\ canvasRef' = ref
           /\ canvasPx' = IF image = NoImage THEN BlankRaster ELSE canvasPx
           /\ imageLoads' = AddTo(imageLoads,
                  [img |-> img, canvas |-> ref, history |-> drawingHistory,
                   index |-> currentHistoryIndex, quality |-> jpegQuality])
    /\ lastOp' = "other"
    /\ run' = NoRun
    /\ UNCHANGED <<crop, imageRef, outputSizes, jpegQuality, isDrawing,
                   drawingHistory, currentHistoryIndex, undoLoads, encodes,
                   call, limits>>
    /\ UNCHANGED cropperVars

\* img.onload of the [image] effect
DrawerImageLoaded(l) ==
    /\ BagIn(l, imageLoads)
    /\ LET px == IF l.canvas = canvasRef THEN ImageRaster(l.img) ELSE canvasPx
           saved == saveToHistory(l.history, l.index, canvasRef, px)
       IN  /\ canvasPx' = px
           /\ drawingHistory' = saved.history
           /\ currentHistoryIndex' = saved.index
           /\ updateOutputSizes(canvasRef, px, l.quality)
           /\ imageLoads' = RemoveFrom(imageLoads, l)
           /\ run' = IF /\ l.canvas = canvasRef
                        /\ Len(saved.history) = 1
                        /\ BagIsEmpty(imageLoads')
                        /\ BagIsEmpty(undoLoads)
                        /\ ~isDrawing
                     THEN [phase |-> "strokes", snaps |-> <<px>>, undos |-> 0]
                     ELSE NoRun
    /\ lastOp' = "other"
    /\ UNCHANGED <<image, crop, imageRef, jpegQuality, canvasRef, isDrawing,
                   undoLoads, call, limits>>
    /\ UNCHANGED cropperVars

\* onMouseDown
startDrawing ==
    /\ canvasRef # NullRef
    /\ isDrawing' = TRUE
    /\ lastOp' = "other"
    /\ run' = IF run.phase = "strokes" THEN run ELSE NoRun
    /\ UNCHANGED <<image, crop, imageRef, outputSizes, jpegQuality, canvasRef,
                   canvasPx, drawingHistory, currentHistoryIndex, imageLoads,
                   undoLoads, encodes, call, limits>>
    /\ UNCHANGED cropperVars

\* onMouseMove
draw(p) ==
    /\ canvasRef # NullRef
    /\ Len(canvasPx.segs) < MaxSegments
    /\ IF ~isDrawing
       THEN UNCHANGED <<canvasPx, run>>
       ELSE /\ canvasPx' = StrokeSegment(canvasPx, p)
            /\ run' = IF run.phase = "strokes" THEN run ELSE NoRun
    /\ lastOp' = "other"
    /\ UNCHANGED <<image, crop, imageRef, outputSizes, jpegQuality, canvasRef,
                   isDrawing, drawingHistory, currentHistoryIndex, imageLoads,
                   undoLoads, encodes, call, limits>>
    /\ UNCHANGED cropperVars

\* stopDrawing without "if (!isDrawing) return": every mouseup and
\* mouseleave commits
stopDrawing_Unguarded ==
    /\ canvasRef # NullRef
    /\ currentHistoryIndex + 2 <= limits.history
    /\ Pending < limits.pending
    /\ isDrawing' = FALSE
    /\ LET saved == saveToHistory(drawingHistory, currentHistoryIndex,
                                  canvasRef, canvasPx)
       IN  /\ drawingHistory' = saved.history
           /\ currentHistoryIndex' = saved.index
    /\ updateOutputSizes(canvasRef, canvasPx, jpegQuality)
    /\ lastOp' = IF currentHistoryIndex + 1 < Len(drawingHistory)
                 THEN "commitTruncating" ELSE "commit"
    /\ run' = IF run.phase = "strokes"
              THEN [run EXCEPT !.snaps = Append(@, canvasPx)]
              ELSE NoRun
    /\ UNCHANGED <<image, crop, imageRef, jpegQuality, canvasRef, canvasPx,
                   imageLoads, undoLoads, call, limits>>
    /\ UNCHANGED cropperVars

\* onMouseUp / onMouseLeave
stopDrawing ==
    /\ canvasRef # NullRef
    /\ IF ~isDrawing
       THEN /\ lastOp' = "other"
            /\ UNCHANGED <<isDrawing, drawingHistory, currentHistoryIndex,
                           outputSizes, encodes, run>>
       ELSE /\ currentHistoryIndex + 2 <= limits.history
            /\ Pending < limits.pending
            /\ isDrawing' = FALSE
            /\ LET saved == saveToHistory(drawingHistory, currentHistoryIndex,
                                          canvasRef, canvasPx)
               IN  /\ drawingHistory' = saved.history
                   /\ currentHistoryIndex' = saved.index
            /\ updateOutputSizes(canvasRef, canvasPx, jpegQuality)
            /\ lastOp' = IF currentHistoryIndex + 1 < Len(drawingHistory)
                         THEN "commitTruncating" ELSE "commit"
            /\ run' = IF run.phase = "strokes"
                      THEN [run EXCEPT !.snaps = Append(@, canvasPx)]
                      ELSE NoRun
    /\ UNCHANGED <<image, crop, imageRef, jpegQuality, canvasRef, canvasPx,
                   imageLoads, undoLoads, call, limits>>
    /\ UNCHANGED cropperVars

\* undo whose guard lets index 0 through
undoResult_GuardBelowZero(hist, idx) ==
    IF idx < 0
    THEN [done |-> FALSE, index |-> idx, src |-> toDataURL(BlankRaster)]
    ELSE [done |-> TRUE, index |-> idx - 1,
          src |-> IF idx >= 1 THEN hist[idx] ELSE toDataURL(BlankRaster)]

\* undo: the early return, newIndex and the img.src it sets (the history is
\* 0-based in the code, drawingHistory[newIndex] is hist[newIndex + 1] here)
undoResult(hist, idx) ==
    IF idx <= 0
    THEN [done |-> FALSE, index |-> idx, src |-> toDataURL(BlankRaster)]
    ELSE [done |-> TRUE, index |-> idx - 1, src |-> hist[idx]]

\* the undo button, or handleKeyDown on Ctrl/Cmd+Z
undo ==
    LET u == undoResult(drawingHistory, currentHistoryIndex)
    IN  /\ u.done => Pending < limits.pending
        /\ currentHistoryIndex' = u.index
        /\ undoLoads' = IF u.done THEN AddTo(undoLoads, u.src) ELSE undoLoads
        /\ lastOp' = IF u.done THEN "undo" ELSE "undoIdle"
        /\ run' = IF ~u.done THEN run
                  ELSE IF /\ run.phase \in {"strokes", "undos"}
                          /\ ~isDrawing
                          /\ run.undos + 1 < Len(run.snaps)
                       THEN [run EXCEPT !.phase = "undos", !.undos = @ + 1]
                       ELSE NoRun
        /\ UNCHANGED <<image, crop, imageRef, outputSizes, jpegQuality,
                       canvasRef, canvasPx, isDrawing, drawingHistory,
                       imageLoads, encodes, call, limits>>
        /\ UNCHANGED cropperVars

\* img.onload of undo: canvasRef.current is read when the load completes
UndoImageLoaded(src) ==
    /\ BagIn(src, undoLoads)
    /\ undoLoads' = RemoveFrom(undoLoads, src)
    /\ canvasPx' = IF canvasRef = NullRef
                   THEN canvasPx   \* canvas.getContext throws a TypeError
                   ELSE DecodeDataURL(src)
    /\ lastOp' = "other"
    /\ UNCHANGED <<image, crop, imageRef, outputSizes, jpegQuality, canvasRef,
                   isDrawing, drawingHistory, currentHistoryIndex, imageLoads,
                   encodes, run, call, limits>>
    /\ UNCHANGED cropperVars

\* the quality slider of ExportControls: setJpegQuality, then the hook's
\* [jpegQuality, updateOutputSizes] effect
DrawerSetJpegQuality(q) ==
    /\ image # NoImage
    /\ q # jpegQuality
    /\ Pending < limits.pending
    /\ jpegQuality' = q
    /\ updateOutputSizes(canvasRef, canvasPx, q)
    /\ lastOp' = "other"
    /\ UNCHANGED <<image, crop, imageRef, call, limits>>
    /\ UNCHANGED drawerVars
    /\ UNCHANGED cropperVars

\* the callback of an in-flight getOutputSizes: setOutputSizes(sizes)
EncodeDone(e) ==
    /\ BagIn(e, encodes)
    /\ encodes' = RemoveFrom(encodes, e)
    /\ outputSizes' = getOutputSizes(e.px, e.quality)
    /\ lastOp' = "other"
    /\ UNCHANGED <<image, crop, imageRef, jpegQuality, call, limits>>
    /\ UNCHANGED drawerVars
    /\ UNCHANGED cropperVars

\* the Drawer's Reset button
DrawerResetApp ==
    /\ image # NoImage
    /\ image' = NoImage
    /\ crop' = Undefined
    /\ imageRef' = NullRef
    /\ outputSizes' = ZeroSizes
    /\ jpegQuality' = DefaultJpegQuality
    /\ isDrawing' = FALSE
    /\ drawingHistory' = <<>>
    /\ currentHistoryIndex' = -1
    /\ canvasRef' = NullRef
    /\ canvasPx' = BlankRaster
    /\ lastOp' = "other"
    /\ run' = NoRun
    /\ UNCHANGED <<imageLoads, undoLoads, encodes, call, limits>>
    /\ UNCHANGED cropperVars

InitCommon ==
    /\ image = NoImage
    /\ crop = Undefined
    /\ imageRef = NullRef
    /\ outputSizes = ZeroSizes
    /\ jpegQuality = DefaultJpegQuality
    /\ canvasRef = NullRef
    /\ canvasPx = BlankRaster
    /\ isDrawing = FALSE
    /\ drawingHistory = <<>>
    /\ currentHistoryIndex = -1
    /\ imageLoads = EmptyBag
    /\ undoLoads = EmptyBag
    /\ encodes = EmptyBag
    /\ elemSrc = NoElements
    /\ lastOp = "other"
    /\ run = NoRun
    /\ lastStarted = ZeroSizes

\* the Cropper is not mounted: no debounce timer exists
NoTimers ==
    /\ timers = {}
    /\ debounceTimeoutRef = NullRef
    /\ debounce = NoDebounce

DrawerInit == InitCommon /\ NoTimers /\ call = NoCall /\ limits = Limits

DrawerRaceInit ==
    InitCommon /\ NoTimers /\ call = NoCall /\ limits = WideLimits

DrawerNext ==
    \/ \E img \in Images : DrawerPaste(img)
    \/ \E l \in BagToSet(imageLoads) : DrawerImageLoaded(l)
    \/ startDrawing
    \/ \E p \in Points : draw(p)
    \/ stopDrawing
    \/ undo
    \/ \E src \in BagToSet(undoLoads) : UndoImageLoaded(src)
    \/ \E e \in BagToSet(encodes) : EncodeDone(e)
    \/ DrawerResetApp

\* the handlers of the Drawer, the quality slider left alone
SpecDrawer == DrawerInit /\ [][DrawerNext]_vars

DrawerRaceNext ==
    \/ DrawerNext
    \/ \E q \in Qualities : DrawerSetJpegQuality(q)

\* the Drawer with room for two callbacks to be pending at once
SpecDrawerRace == DrawerRaceInit /\ [][DrawerRaceNext]_vars

(***************************************************************************)
(* The claims about the Drawer's history.                                  *)
(***************************************************************************)
\* C1: after any sequence of image load, stroke commit, undo and reset,
\* either drawingHistory is empty and currentHistoryIndex = -1, or
\* 0 <= currentHistoryIndex < length(drawingHistory).
C1_HistoryIndexInRange ==
    \/ drawingHistory = <<>> /\ currentHistoryIndex = -1
    \/ 0 <= currentHistoryIndex /\ currentHistoryIndex < Len(drawingHistory)

\* a load, a committed stroke and an undo have happened
C1_Witness ==
    /\ lastOp = "undo"
    /\ Len(drawingHistory) = 2
    /\ currentHistoryIndex = 0

\* C2: a stroke committed while currentHistoryIndex = i leaves the history
\* equal to the old entries 0..i followed by the new snapshot, every entry
\* after i gone, and currentHistoryIndex = i + 1, the last position.
C2_CommitTruncates ==
    [][(isDrawing /\ ~isDrawing' /\ canvasRef' # NullRef) =>
          /\ drawingHistory' =
                 Append(SubSeq(drawingHistory, 1, currentHistoryIndex + 1),
                        toDataURL(canvasPx))
          /\ currentHistoryIndex' = currentHistoryIndex + 1
          /\ currentHistoryIndex' = Len(drawingHistory') - 1]_vars

\* a stroke has been committed on top of an undone entry
C2_Witness ==
    /\ lastOp = "commitTruncating"
    /\ Len(drawingHistory) = 2
    /\ currentHistoryIndex = 1

\* C3: after an image load followed by N >= 1 committed strokes, k <= N
\* successive undos leave the canvas raster identical to the snapshot
\* taken after stroke N - k, once the snapshots undo loads have arrived.
C3_UndoRestoresSnapshot ==
    (run.phase = "undos" /\ BagIsEmpty(undoLoads)) =>
        canvasPx = run.snaps[Len(run.snaps) - run.undos]

\* C4: undo at currentHistoryIndex <= 0 changes neither drawingHistory nor
\* currentHistoryIndex nor the canvas raster; undo at an index i > 0
\* lowers the index by exactly 1 and leaves drawingHistory unchanged.
C4_UndoFrame ==
    [][(lastOp' \in {"undo", "undoIdle"}) =>
          IF currentHistoryIndex <= 0
          THEN UNCHANGED <<drawingHistory, currentHistoryIndex, canvasPx,
                           undoLoads>>
          ELSE /\ currentHistoryIndex' = currentHistoryIndex - 1
               /\ drawingHistory' = drawingHistory]_vars

\* an undo from index 1 to index 0, then an undo at the oldest snapshot
C4_Witness ==
    /\ lastOp = "undoIdle"
    /\ Len(drawingHistory) = 2
    /\ currentHistoryIndex = 0

\* C20: in the Drawer each stroke, from pointer-down to the first
\* pointer-up or pointer-leave after it, commits exactly one snapshot (the
\* raster as drawn, right after the current entry), and a pointer-move,
\* pointer-up or pointer-leave while no stroke is active changes neither
\* the raster nor the history.
C20_StrokeCommitsOnce ==
    [][/\ (stopDrawing /\ isDrawing) =>
              /\ ~isDrawing'
              /\ currentHistoryIndex' = currentHistoryIndex + 1
              /\ Len(drawingHistory') = currentHistoryIndex + 2
              /\ drawingHistory'[currentHistoryIndex' + 1]
                     = toDataURL(canvasPx)
              /\ canvasPx' = canvasPx
       /\ ((startDrawing \/ \E p \in Points : draw(p)) =>
              UNCHANGED <<drawingHistory, currentHistoryIndex>>)
       /\ ((stopDrawing \/ \E p \in Points : draw(p)) /\ ~isDrawing =>
              UNCHANGED <<canvasPx, drawingHistory, currentHistoryIndex,
                          isDrawing>>)]_vars

\* a stroke has been drawn and committed behind the pasted image
C20_Witness ==
    /\ ~isDrawing
    /\ lastOp = "commit"
    /\ canvasPx.segs # <<>>
    /\ Len(drawingHistory) = 2
    /\ drawingHistory[2] = toDataURL(canvasPx)

(***************************************************************************)
(* The Cropper.                                                            *)
(***************************************************************************)
MaxBurst == 2           \* crop changes counted within one burst

\* the time one step of the clock advances
TickMs == DebounceMs \div 2

\* the <img> element showing img: imageA is displayed at half its natural
\* size, imageB at 1:1
Element(img) ==
    IF img = "imageA"
    THEN [src |-> img, naturalWidth |-> 4, naturalHeight |-> 4,
          width |-> 2, height |-> 2]
    ELSE [src |-> img, naturalWidth |-> 2, naturalHeight |-> 2,
          width |-> 2, height |-> 2]

\* the element a reference points to, as it is when the reference is used
ElementOf(ref) ==
    IF ref = NullRef \/ elemSrc[ref] = NoImage
    THEN NullElement
    ELSE Element(elemSrc[ref])

\* the regions ReactCrop reports, display pixels; the last one is a click
\* that leaves an empty selection
Crops ==
    {[x |-> 0, y |-> 0, width |-> 1, height |-> 1, set |-> TRUE],
     [x |-> 0, y |-> 0, width |-> 2, height |-> 1, set |-> TRUE],
     [x |-> 1, y |-> 1, width |-> 0, height |-> 0, set |-> TRUE]}

\* JavaScript numbers are IEEE 754 doubles: 53 significant bits, held here
\* as a leading 1 and four limbs of 13 bits, with the exponent of the
\* leading bit
LimbBits == 13
Limb == 2 ^ LimbBits
ZeroDouble == [limbs |-> <<0, 0, 0, 0, 0>>, exp |-> 0]

\* floor(log2(n)) for 1 <= n < 2^30
Log2(n) == CHOOSE k \in 0 .. 29 : 2 ^ k <= n /\ n < 2 ^ (k + 1)

\* the double one unit in the last place above [limbs, exp]
NextUp(limbs, exp) ==
    LET c5 == limbs[5] + 1
        c4 == limbs[4] + c5 \div Limb
        c3 == limbs[3] + c4 \div Limb
        c2 == limbs[2] + c3 \div Limb
        c1 == limbs[1] + c2 \div Limb
    IN  IF c1 = 2
        THEN [limbs |-> <<1, 0, 0, 0, 0>>, exp |-> exp + 1]
        ELSE [limbs |-> <<c1, c2 % Limb, c3 % Limb, c4 % Limb, c5 % Limb>>,
              exp |-> exp]

\* round to nearest, ties to even: half is the weight of the first
\* dropped bit, dropped the value of the dropped bits
RoundToNearestEven(limbs, exp, dropped, half) ==
    IF dropped > half \/ (dropped = half /\ limbs[5] % 2 = 1)
    THEN NextUp(limbs, exp)
    ELSE [limbs |-> limbs, exp |-> exp]

\* the double nearest to num / den, for 0 <= num and 1 <= den < 2^17
Divide(num, den) ==
    IF num = 0 THEN ZeroDouble
    ELSE LET exp == IF num >= den THEN Log2(num \div den)
                    ELSE 0 - (CHOOSE z \in 1 .. 17 :
                                 num * 2 ^ z >= den /\ num * 2 ^ (z - 1) < den)
             n == IF exp < 0 THEN num * 2 ^ (0 - exp) ELSE num
             d == IF exp > 0 THEN den * 2 ^ exp ELSE den
             r0 == n - d
             r1 == (r0 * Limb) % d
             r2 == (r1 * Limb) % d
             r3 == (r2 * Limb) % d
             r4 == (r3 * Limb) % d
         IN  RoundToNearestEven(<<1, (r0 * Limb) \div d, (r1 * Limb) \div d,
                                  (r2 * Limb) \div d, (r3 * Limb) \div d>>,
                                exp, 2 * r4, d)

\* the double nearest to c * x, for an integer 0 <= c < 2^12
Multiply(c, x) ==
    IF c = 0 \/ x = ZeroDouble THEN ZeroDouble
    ELSE LET v5 == x.limbs[5] * c
             v4 == x.limbs[4] * c + v5 \div Limb
             v3 == x.limbs[3] * c + v4 \div Limb
             v2 == x.limbs[2] * c + v3 \div Limb
             v1 == x.limbs[1] * c + v2 \div Limb
             shift == Log2(v1)
             low == 2 ^ shift
             high == Limb \div low
             p == <<v1, v2 % Limb, v3 % Limb, v4 % Limb, v5 % Limb>>
             shifted == [i \in 1 .. 5 |->
                            IF i = 1 THEN p[1] \div low
                            ELSE (p[i - 1] % low) * high + p[i] \div low]
         IN  RoundToNearestEven(shifted, x.exp + shift, 2 * (p[5] % low), low)

\* floor(x / 2^drop) for a double below 2^30 in value
Truncated(x, drop) ==
    LET part(i) == LET k == LimbBits * (5 - i) - drop
                   IN  IF k >= 0 THEN x.limbs[i] * 2 ^ k
                       ELSE IF k > 0 - LimbBits THEN x.limbs[i] \div 2 ^ (0 - k)
                       ELSE 0
    IN  part(1) + part(2) + part(3) + part(4) + part(5)

\* Math.round(x) for a double 0 <= x < 2^29: the nearest integer, a half
\* rounding up
MathRound(x) ==
    IF x = ZeroDouble \/ x.exp < -1 THEN 0
    ELSE IF x.exp = -1 THEN 1
    ELSE LET fraction == 4 * LimbBits - x.exp
         IN  Truncated(x, fraction) + (Truncated(x, fraction - 1) % 2)

\* createCroppedCanvas(imageRef, crop): null, or a canvas of the rounded
\* natural-resolution size holding that region of the image
createCroppedCanvas(el, c) ==
    IF el = NullElement \/ ~c.set \/ c.width = 0 \/ c.height = 0
    THEN NullCanvas
    ELSE LET scaleX == Divide(el.naturalWidth, el.width)
             scaleY == Divide(el.naturalHeight, el.height)
         IN  [width |-> MathRound(Multiply(c.width, scaleX)),
              height |-> MathRound(Multiply(c.height, scaleY)),
              src |-> el.src, crop |-> c]

\* an <img> element no pending timer still refers to
FreshElem ==
    CHOOSE e \in ElemIds :
        /\ e \notin {t.closure.imageRef : t \in timers}
        /\ \A d \in ElemIds : d < e => d \in {t.closure.imageRef : t \in timers}

\* the id setTimeout returns: never one that is pending, never the last one
FreshTimer(ts, ref) ==
    LET used == {t.id : t \in ts} \cup {ref}
    IN  CHOOSE id \in 1 .. (Cardinality(used) + 1) :
            id \notin used /\ \A d \in 1 .. (id - 1) : d \in used

clearTimeout(ts, id) == {t \in ts : t.id # id}

setTimeout(ts, id, delay, closure) ==
    ts \cup {[id |-> id, remaining |-> delay, closure |-> closure]}

\* debouncedUpdateOutputSizes firing after half the quiet period
debouncedUpdateOutputSizes_HalfDelay(ts, ref, closure) ==
    LET cleared == IF ref # NullRef THEN clearTimeout(ts, ref) ELSE ts
        id == FreshTimer(cleared, ref)
    IN  [timers |-> setTimeout(cleared, id, TickMs, closure), ref |-> id]

\* debouncedUpdateOutputSizes: clear debounceTimeoutRef.current, then store
\* the id of a new 200ms timer in it
debouncedUpdateOutputSizes(ts, ref, closure) ==
    LET cleared == IF ref # NullRef THEN clearTimeout(ts, ref) ELSE ts
        id == FreshTimer(cleared, ref)
    IN  [timers |-> setTimeout(cleared, id, DebounceMs, closure), ref |-> id]

\* the effect re-running without any clearTimeout
RerunEffect_NoCancel(ts, ref, closure) ==
    LET id == FreshTimer(ts, ref)
    IN  [timers |-> setTimeout(ts, id, DebounceMs, closure), ref |-> id]

\* the [crop, jpegQuality, debouncedUpdateOutputSizes] effect re-running:
\* the cleanup of its previous run, then its body
RerunEffect(ts, ref, closure) ==
    LET cleaned == IF ref # NullRef THEN clearTimeout(ts, ref) ELSE ts
    IN  debouncedUpdateOutputSizes(cleaned, ref, closure)

\* a dependency of the effect changed: the quiet period starts again; a
\* crop change less than 200ms after a crop change extends the burst
Changed(isCrop) ==
    [debounce EXCEPT
        !.since = 0,
        !.runs = 0,
        !.burst = IF ~isCrop THEN 0
                  ELSE IF @ >= 1 /\ debounce.since < DebounceMs
                       THEN (IF @ < MaxBurst THEN @ + 1 ELSE @)
                       ELSE 1]

\* handlePaste / handleFileUpload of useImageUpload: setImage(url).  The
\* first image mounts the <img>, whose ref callback sets imageRef, and the
\* effect re-runs; a later image changes the src of the mounted <img> and
\* no dependency of the effect
CropperPaste(img) ==
    /\ image' = img
    /\ IF image = NoImage
       THEN LET e == RerunEffect(timers, debounceTimeoutRef,
                         Closure(FreshElem, crop, jpegQuality))
            IN  /\ imageRef' = FreshElem
                /\ elemSrc' = [elemSrc EXCEPT ![FreshElem] = img]
                /\ timers' = e.timers
                /\ debounceTimeoutRef' = e.ref
                /\ debounce' = Changed(FALSE)
       ELSE /\ img # image
            /\ elemSrc' = [elemSrc EXCEPT ![imageRef] = img]
            /\ UNCHANGED <<imageRef, timers, debounceTimeoutRef, debounce>>
    /\ UNCHANGED <<crop, outputSizes, jpegQuality, encodes, lastOp,
                   lastStarted, call, limits>>
    /\ UNCHANGED drawerVars

\* ReactCrop onChange: setCrop(c), a new object on every event
CropperSetCrop(c) ==
    /\ image # NoImage
    /\ crop' = c
    /\ LET e == RerunEffect(timers, debounceTimeoutRef,
                    Closure(imageRef, c, jpegQuality))
       IN  /\ timers' = e.timers
           /\ debounceTimeoutRef' = e.ref
    /\ debounce' = Changed(TRUE)
    /\ UNCHANGED <<image, imageRef, outputSizes, jpegQuality, encodes,
                   elemSrc, lastOp, lastStarted, call, limits>>
    /\ UNCHANGED drawerVars

\* the Cropper's quality slider: setJpegQuality
CropperSetJpegQuality(q) ==
    /\ image # NoImage
    /\ q # jpegQuality
    /\ jpegQuality' = q
    /\ LET e == RerunEffect(timers, debounceTimeoutRef,
                    Closure(imageRef, crop, q))
       IN  /\ timers' = e.timers
           /\ debounceTimeoutRef' = e.ref
    /\ debounce' = Changed(FALSE)
    /\ UNCHANGED <<image, crop, imageRef, outputSizes, encodes, elemSrc,
                   lastOp, lastStarted, call, limits>>
    /\ UNCHANGED drawerVars

\* time passes; a timer that is due may still wait for its turn
Tick ==
    /\ \/ debounce.since < DebounceMs
       \/ \E t \in timers : t.remaining > 0
    /\ timers' = {[t EXCEPT !.remaining =
                      IF @ > TickMs THEN @ - TickMs ELSE 0] : t \in timers}
    /\ debounce' = [debounce EXCEPT !.since =
                      IF @ + TickMs < DebounceMs THEN @ + TickMs
                      ELSE DebounceMs]
    /\ UNCHANGED <<image, crop, imageRef, outputSizes, jpegQuality, encodes,
                   debounceTimeoutRef, elemSrc, lastOp, lastStarted, call,
                   limits>>
    /\ UNCHANGED drawerVars

\* the callback of a debounce timer: updateOutputSizes of the render that
\* scheduled it, up to its await
TimerFire(t) ==
    /\ t \in timers
    /\ t.remaining = 0
    /\ timers' = timers \ {t}
    /\ LET canvas == createCroppedCanvas(ElementOf(t.closure.imageRef),
                                         t.closure.crop)
       IN  IF canvas = NullCanvas
           THEN /\ outputSizes' = ZeroSizes
                /\ lastStarted' = ZeroSizes
                /\ UNCHANGED encodes
           ELSE /\ Pending < limits.pending
                /\ encodes' = AddTo(encodes, [px |-> canvas,
                                              quality |-> t.closure.quality])
                /\ lastStarted' = getOutputSizes(canvas, t.closure.quality)
                /\ UNCHANGED outputSizes
    /\ debounce' = [debounce EXCEPT !.runs = @ + 1,
                                    !.ranAt = debounce.since,
                                    !.ranWith = t.closure]
    /\ UNCHANGED <<image, crop, imageRef, jpegQuality, debounceTimeoutRef,
                   elemSrc, lastOp, call, limits>>
    /\ UNCHANGED drawerVars

\* the Cropper's Reset button; imageRef changes, so the effect re-runs
CropperResetApp ==
    /\ image # NoImage
    /\ image' = NoImage
    /\ crop' = Undefined
    /\ imageRef' = NullRef
    /\ outputSizes' = ZeroSizes
    /\ LET e == RerunEffect(timers, debounceTimeoutRef,
                    Closure(NullRef, Undefined, jpegQuality))
       IN  /\ timers' = e.timers
           /\ debounceTimeoutRef' = e.ref
    /\ debounce' = Changed(FALSE)
    /\ UNCHANGED <<jpegQuality, encodes, elemSrc, lastOp, lastStarted, call,
                   limits>>
    /\ UNCHANGED drawerVars

\* the Cropper after its first render: the effect has run once
CropperMounted ==
    LET closure == Closure(NullRef, Undefined, DefaultJpegQuality)
        e == RerunEffect({}, NullRef, closure)
    IN  /\ timers = e.timers
        /\ debounceTimeoutRef = e.ref
        /\ debounce = NoDebounce

CropperInit ==
    InitCommon /\ CropperMounted /\ call = NoCall /\ limits = Limits

CropperRaceInit ==
    InitCommon /\ CropperMounted /\ call = NoCall /\ limits = WideLimits

CropperNext ==
    \/ \E img \in Images : CropperPaste(img)
    \/ \E c \in Crops : CropperSetCrop(c)
    \/ \E q \in Qualities : CropperSetJpegQuality(q)
    \/ Tick
    \/ \E t \in timers : TimerFire(t)
    \/ \E e \in BagToSet(encodes) : EncodeDone(e)
    \/ CropperResetApp

\* the Cropper, one size estimate in flight at a time
SpecCropper == CropperInit /\ [][CropperNext]_vars

\* the Cropper with room for two size estimates to be in flight at once
SpecCropperRace == CropperRaceInit /\ [][CropperNext]_vars

(***************************************************************************)
(* The claims about the size estimate and its debounce.                    *)
(***************************************************************************)
\* C5: of two size recomputes started for an older and a newer version of
\* the parameters, the newer one decides outputSizes whatever the order in
\* which their encodes complete: once no timer is pending and no encode is
\* in flight, outputSizes is the result of the recompute started last.
C5_NewestRecomputeWins ==
    (timers = {} /\ BagIsEmpty(encodes)) => outputSizes = lastStarted

\* C6: after reset and until a new image is loaded, no callback of work
\* started before the reset changes the session: outputSizes stays at
\* 0.00 / 0.00 and the history stays empty.
C6_ResetSilencesCallbacks ==
    image = NoImage => (outputSizes = ZeroSizes /\ drawingHistory = <<>>)

\* C7: after a change of the crop (so also after the last change of a burst
\* of crop changes less than 200ms apart) the size recompute does not run
\* before 200ms have passed without a change, it runs at most once, with
\* the crop, element and quality of the last change, and until it has run
\* exactly one timer is pending for it.
C7_DebounceCoalesces ==
    /\ debounce.runs <= 1
    /\ debounce.runs = 1 =>
           /\ debounce.ranAt = DebounceMs
           /\ debounce.ranWith = Closure(imageRef, crop, jpegQuality)
    /\ debounce.runs = 0 =>
           \E t \in timers :
               /\ timers = {t}
               /\ t.closure = Closure(imageRef, crop, jpegQuality)
               /\ t.remaining = DebounceMs - debounce.since

\* the recompute has run once, 200ms after the last change of a burst
C7_Witness ==
    /\ debounce.burst >= 2
    /\ debounce.runs = 1
    /\ debounce.ranWith.crop = crop
    /\ crop.width > 0

\* C8: at most one debounce timer is pending, and it is the one scheduled
\* last (the one debounceTimeoutRef holds): every timer scheduled before it
\* was cancelled and cannot run.
C8_OneTimerPending ==
    /\ Cardinality(timers) <= 1
    /\ \A t \in timers : t.id = debounceTimeoutRef

\* a timer was cancelled half way and replaced by a new one
C8_Witness ==
    /\ debounce.burst >= 2
    /\ debounce.since = 0
    /\ \E t \in timers : t.remaining = DebounceMs /\ t.closure.crop = crop

(***************************************************************************)
(* The crop transform of each variant of the editor.                       *)
(***************************************************************************)
MaxDim == 3             \* natural and displayed widths and heights

\* the image and the region of the 200x100 scenario
ScenarioElement ==
    [src |-> "imageB", naturalWidth |-> 200, naturalHeight |-> 100,
     width |-> 200, height |-> 100]
ScenarioCrop == [x |-> 50, y |-> 25, width |-> 100, height |-> 50, set |-> TRUE]

\* a 61x61 image displayed at 14x14 and a 7x7 region of it: 7 * 61 / 14 is
\* 30.5, half way between two integers
TieElement ==
    [src |-> "imageB", naturalWidth |-> 61, naturalHeight |-> 61,
     width |-> 14, height |-> 14]
TieCrop == [x |-> 0, y |-> 0, width |-> 7, height |-> 7, set |-> TRUE]

\* <img> elements that have loaded img: every natural size at every
\* displayed size
Elements(img) ==
    {[src |-> img, naturalWidth |-> nw, naturalHeight |-> nh,
      width |-> w, height |-> h] :
        nw \in 1 .. MaxDim, nh \in 1 .. MaxDim,
        w \in 1 .. MaxDim, h \in 1 .. MaxDim}

\* the regions ReactCrop can report on an element: inside the displayed
\* image, possibly empty, or no region yet
CropsOf(el) ==
    {[x |-> x, y |-> y, width |-> w, height |-> h, set |-> TRUE] :
        x \in {0, 1}, y \in {0}, w \in 0 .. MaxDim, h \in 0 .. MaxDim}
        \cup {ScenarioCrop, TieCrop, Undefined}

Fits(el, c) == c.x + c.width <= el.width /\ c.y + c.height <= el.height

Paths == {"estimate", "copy", "download"}

\* ClipboardPhotoCropper.js: updateOutputSizes, handleCopyTo*, and
\* handleDownload* all build their canvas with createCroppedCanvas
CropperCanvas(path, el, c) ==
    IF el = NullElement \/ ~c.set
          \/ (path = "estimate" /\ (c.width = 0 \/ c.height = 0))
    THEN NullCanvas
    ELSE createCroppedCanvas(el, c)

\* the earlier Cropper: updateImageSize, saveToClipboard and downloadImage
\* each size their canvas themselves, with Math.round
LegacyCropperCanvas(path, el, c) ==
    IF el = NullElement \/ ~c.set
          \/ (path = "estimate" /\ (c.width = 0 \/ c.height = 0))
    THEN NullCanvas
    ELSE LET scaleX == Divide(el.naturalWidth, el.width)
             scaleY == Divide(el.naturalHeight, el.height)
         IN  [width |-> MathRound(Multiply(c.width, scaleX)),
              height |-> MathRound(Multiply(c.height, scaleY)),
              src |-> el.src, crop |-> c]

\* App.js: updateImageSize, saveToClipboard and downloadImage set
\* canvas.width = crop.width and canvas.height = crop.height
AppCanvas(path, el, c) ==
    IF el = NullElement \/ ~c.set
          \/ (path = "estimate" /\ (c.width = 0 \/ c.height = 0))
    THEN NullCanvas
    ELSE [width |-> c.width, height |-> c.height, src |-> el.src, crop |-> c]

\* one of the handlers runs on the mounted image and the current region
Called(variant, path, canvas) ==
    /\ call' = [call EXCEPT !.variant = variant, !.path = path,
                            !.out = canvas]
    /\ UNCHANGED <<image, crop, imageRef, outputSizes, jpegQuality, encodes,
                   lastOp, limits>>
    /\ UNCHANGED drawerVars
    /\ UNCHANGED cropperVars

CropperExport(path) ==
    Called("Cropper", path, CropperCanvas(path, call.el, call.crop))

LegacyCropperExport(path) ==
    Called("LegacyCropper", path,
           LegacyCropperCanvas(path, call.el, call.crop))

AppExport(path) ==
    Called("App", path, AppCanvas(path, call.el, call.crop))

\* an image has loaded into the <img> and a region may have been selected
TransformInit ==
    /\ InitCommon
    /\ NoTimers
    /\ limits = Limits
    /\ \E el \in Elements("imageA") \cup {ScenarioElement, TieElement} :
           \E c \in {r \in CropsOf(el) : Fits(el, r)} :
               call = [NoCall EXCEPT !.el = el, !.crop = c]

TransformNext ==
    \E path \in Paths :
        \/ CropperExport(path)
        \/ LegacyCropperExport(path)
        \/ AppExport(path)

\* every crop path of every variant, on every image and region
SpecTransform == TransformInit /\ [][TransformNext]_vars

(***************************************************************************)
(* The claims about the crop transform.                                    *)
(***************************************************************************)
\* n is num / den rounded to the nearest integer, a half rounding up
IsRounded(n, num, den) ==
    /\ (2 * n - 1) * den <= 2 * num
    /\ 2 * num < (2 * n + 1) * den

PositiveCrop(c) == c.set /\ c.width > 0 /\ c.height > 0

\* C9: for every image and every crop of positive width and height the
\* canvas createCroppedCanvas returns is round(crop.width * naturalWidth /
\* displayWidth) wide and round(crop.height * naturalHeight /
\* displayHeight) high; a 200x100 image at 1:1 with the crop
\* {x: 50, y: 25, width: 100, height: 50} gives 100x50.
C9_CroppedCanvasDimensions ==
    (call.variant = "Cropper" /\ PositiveCrop(call.crop)) =>
        /\ call.out # NullCanvas
        /\ IsRounded(call.out.width,
                     call.crop.width * call.el.naturalWidth, call.el.width)
        /\ IsRounded(call.out.height,
                     call.crop.height * call.el.naturalHeight,
                     call.el.height)
        /\ (call.el = ScenarioElement /\ call.crop = ScenarioCrop) =>
               (call.out.width = 100 /\ call.out.height = 50)

\* n is within one pixel of num / den
WithinOnePixel(n, num, den) ==
    /\ (n - 1) * den < num
    /\ num < (n + 1) * den

\* C10: every crop path (copy, download, size estimate) of every variant
\* of the editor sizes its canvas at the natural resolution the crop
\* implies (crop.width * naturalWidth / displayWidth, to the pixel), never
\* at the crop's displayed width and height.
C10_NaturalResolution ==
    (call.variant # "none" /\ PositiveCrop(call.crop)) =>
        /\ WithinOnePixel(call.out.width,
                          call.crop.width * call.el.naturalWidth,
                          call.el.width)
        /\ WithinOnePixel(call.out.height,
                          call.crop.height * call.el.naturalHeight,
                          call.el.height)

(***************************************************************************)
(* Export: the clipboard and download handlers of the editors and the      *)
(* functions of imageExport.js behind them.  A JPEG quality is held in     *)
(* hundredths: the argument 1 is 100, jpegQuality / 100 is jpegQuality.    *)
(***************************************************************************)
NoBlob == [type |-> "none", quality |-> 0, of |-> NullCanvas]

\* canvas.toBlob(callback, format, quality): null for a canvas without
\* pixels or when the encoder fails; the quality matters to JPEG only
toBlob(canvas, format, quality, ok) ==
    IF canvas.width = 0 \/ canvas.height = 0 \/ ~ok
    THEN NoBlob
    ELSE [type |-> format,
          quality |-> IF format = "image/jpeg" THEN quality ELSE 100,
          of |-> canvas]

\* what a handler has done when its promise settles
NoEffects ==
    [encoded |-> <<>>, written |-> <<>>, downloads |-> <<>>,
     toasts |-> <<>>, sizes |-> <<>>, returned |-> "undefined",
     threw |-> FALSE]
NoArgs ==
    [canvas |-> NullCanvas, format |-> "none", quality |-> 0,
     filename |-> "none"]

Toast(status, description) ==
    [status |-> status, description |-> description]

\* calculateImageSize(canvas, format, quality) of imageExport.js
calculateImageSize(canvas, format, quality, ok) ==
    LET blob == IF canvas = NullCanvas THEN NoBlob
                ELSE toBlob(canvas, format, quality, ok)
    IN  [blob |-> blob,
         sizeInMB |-> IF blob = NoBlob THEN ZeroMB
                      ELSE sizeInMB(canvas, blob.type, blob.quality),
         encoded |-> IF canvas = NullCanvas THEN <<>> ELSE <<format>>]

\* copyToClipboard without its catch: a rejected write or a missing blob
\* leaves the promise rejected and nothing shown
copyToClipboard_NoCatch(canvas, format, quality, platform) ==
    IF canvas = NullCanvas
    THEN [NoEffects EXCEPT !.toasts = <<Toast("error", "No image to copy")>>,
                           !.returned = "false"]
    ELSE LET size == calculateImageSize(canvas, "image/png", 90,
                                        platform.encode)
             formatName == IF format = "image/png" THEN "PNG" ELSE "JPG"
         IN  IF size.blob = NoBlob \/ ~platform.write
             THEN [NoEffects EXCEPT !.encoded = size.encoded,
                                    !.threw = TRUE]
             ELSE [NoEffects EXCEPT
                       !.encoded = size.encoded,
                       !.written = <<[type |-> "image/png",
                                      blob |-> size.blob]>>,
                       !.toasts = <<Toast("success",
                           "Image copied to clipboard as "
                               \o formatName)>>,
                       !.returned = "true"]

\* copyToClipboard(canvas, format, quality, toast) of imageExport.js: the
\* blob is always a PNG, the format only names the notification
copyToClipboard(canvas, format, quality, platform) ==
    IF canvas = NullCanvas
    THEN [NoEffects EXCEPT !.toasts = <<Toast("error", "No image to copy")>>,
                           !.returned = "false"]
    ELSE LET size == calculateImageSize(canvas, "image/png", 90,
                                        platform.encode)
             formatName == IF format = "image/png" THEN "PNG" ELSE "JPG"
         IN  IF size.blob = NoBlob \/ ~platform.write
             THEN [NoEffects EXCEPT
                       !.encoded = size.encoded,
                       !.toasts = <<Toast("error",
                           "Failed to copy image to clipboard as "
                               \o formatName)>>,
                       !.returned = "false"]
             ELSE [NoEffects EXCEPT
                       !.encoded = size.encoded,
                       !.written = <<[type |-> "image/png",
                                      blob |-> size.blob]>>,
                       !.toasts = <<Toast("success",
                           "Image copied to clipboard as "
                               \o formatName)>>,
                       !.returned = "true"]

\* downloadImage that goes on to link.click() without a canvas
downloadImage_NullSucceeds(canvas, format, quality, filename, platform) ==
    [NoEffects EXCEPT
         !.downloads = <<[name |-> filename, blob |-> NoBlob]>>,
         !.toasts = <<Toast("success", "Image downloaded successfully")>>,
         !.returned = "true"]

\* downloadImage(canvas, format, quality, filename, toast) of imageExport.js
downloadImage(canvas, format, quality, filename, platform) ==
    IF canvas = NullCanvas
    THEN [NoEffects EXCEPT
              !.toasts = <<Toast("error", "No image to download")>>,
              !.returned = "false"]
    ELSE LET size == calculateImageSize(canvas, format, quality,
                                        platform.encode)
             extension == IF format = "image/png" THEN "png" ELSE "jpg"
             formatName == IF format = "image/png" THEN "PNG" ELSE "JPEG"
         IN  IF size.blob = NoBlob
             THEN [NoEffects EXCEPT
                       !.encoded = size.encoded,
                       !.toasts = <<Toast("error",
                           "Failed to download image as " \o formatName)>>,
                       !.returned = "false"]
             ELSE [NoEffects EXCEPT
                       !.encoded = size.encoded,
                       !.downloads = <<[name |-> filename \o "."
                                                     \o extension,
                                        blob |-> size.blob]>>,
                       !.toasts = <<Toast("success",
                           "Image downloaded successfully as "
                               \o formatName)>>,
                       !.returned = "true"]

\* getOutputSizes(canvas, jpegQuality) of imageExport.js with an encoder
\* that may fail
getOutputSizesResult(canvas, quality, ok) ==
    IF canvas = NullCanvas
    THEN [sizes |-> ZeroSizes, encoded |-> <<>>]
    ELSE LET pngResult == calculateImageSize(canvas, "image/png", 90, ok)
             jpgResult == calculateImageSize(canvas, "image/jpeg", quality,
                                             ok)
         IN  [sizes |-> [png |-> pngResult.sizeInMB,
                         jpg |-> jpgResult.sizeInMB],
              encoded |-> pngResult.encoded \o jpgResult.encoded]

Args(canvas, format, quality, filename) ==
    [canvas |-> canvas, format |-> format, quality |-> quality,
     filename |-> filename]

\* a handler has run to the end on the inputs of the call
Handled(name, args, effects) ==
    /\ call' = [call EXCEPT !.handler = name, !.args = args,
                            !.effects = effects]
    /\ UNCHANGED <<image, crop, imageRef, outputSizes, jpegQuality, encodes,
                   lastOp, limits>>
    /\ UNCHANGED drawerVars
    /\ UNCHANGED cropperVars

\* if (canvas) { await copyToClipboard(canvas, format, quality, toast); }
ThenCopy(name, canvas, format, quality) ==
    IF canvas = NullCanvas
    THEN Handled(name, NoArgs, NoEffects)
    ELSE Handled(name, Args(canvas, format, quality, "none"),
                 copyToClipboard(canvas, format, quality, call.platform))

\* if (canvas) { await downloadImage(canvas, format, quality, name, toast); }
ThenDownload(name, canvas, format, quality, filename) ==
    IF canvas = NullCanvas
    THEN Handled(name, NoArgs, NoEffects)
    ELSE Handled(name, Args(canvas, format, quality, filename),
                 downloadImage(canvas, format, quality, filename,
                               call.platform))

\* getCanvas() of useImageExportControls
getCanvas == call.canvas

\* the handlers of useImageExportControls
handleCopyToPNG ==
    ThenCopy("handleCopyToPNG", getCanvas, "image/png", 100)

handleCopyToJPG ==
    ThenCopy("handleCopyToJPG", getCanvas, "image/jpeg", call.jpegQuality)

handleDownloadPNG ==
    ThenDownload("handleDownloadPNG", getCanvas, "image/png", 100,
                 call.downloadPrefix \o "-image")

handleDownloadJPEG ==
    ThenDownload("handleDownloadJPEG", getCanvas, "image/jpeg",
                 call.jpegQuality, call.downloadPrefix \o "-image")

\* if (!imageRef || !crop) return; createCroppedCanvas(imageRef, crop)
CroppedCanvas ==
    IF call.el = NullElement \/ ~call.crop.set
    THEN NullCanvas
    ELSE createCroppedCanvas(call.el, call.crop)

\* the handlers of ClipboardPhotoCropper.js
CropperHandleCopyToPNG ==
    ThenCopy("Cropper.handleCopyToPNG", CroppedCanvas, "image/png", 100)

CropperHandleCopyToJPG ==
    ThenCopy("Cropper.handleCopyToJPG", CroppedCanvas, "image/jpeg",
             call.jpegQuality)

CropperHandleDownloadPNG ==
    ThenDownload("Cropper.handleDownloadPNG", CroppedCanvas, "image/png",
                 100, "cropped-image")

CropperHandleDownloadJPEG ==
    ThenDownload("Cropper.handleDownloadJPEG", CroppedCanvas, "image/jpeg",
                 call.jpegQuality, "cropped-image")

\* saveToClipboard of the earlier Cropper: only a missing image or region
\* returns early; a null blob makes the clipboard write reject
saveToClipboard ==
    IF call.el = NullElement \/ ~call.crop.set
    THEN Handled("saveToClipboard", NoArgs, NoEffects)
    ELSE LET canvas == LegacyCropperCanvas("copy", call.el, call.crop)
             blob == toBlob(canvas, "image/png", 100, call.platform.encode)
         IN  Handled("saveToClipboard",
                 Args(canvas, "image/png", 100, "none"),
                 IF blob = NoBlob \/ ~call.platform.write
                 THEN [NoEffects EXCEPT
                           !.encoded = <<"image/png">>,
                           !.toasts = <<Toast("error",
                               "Failed to save image to clipboard")>>]
                 ELSE [NoEffects EXCEPT
                           !.encoded = <<"image/png">>,
                           !.written = <<[type |-> "image/png",
                                          blob |-> blob]>>,
                           !.toasts = <<Toast("success",
                               "Image saved to clipboard")>>])

\* downloadImage of the earlier Cropper: URL.createObjectURL(null) throws
\* into the catch
LegacyDownloadImage ==
    IF call.el = NullElement \/ ~call.crop.set
    THEN Handled("Legacy.downloadImage", NoArgs, NoEffects)
    ELSE LET canvas == LegacyCropperCanvas("download", call.el, call.crop)
             blob == toBlob(canvas, "image/png", 100, call.platform.encode)
         IN  Handled("Legacy.downloadImage",
                 Args(canvas, "image/png", 100, "edited-image"),
                 IF blob = NoBlob
                 THEN [NoEffects EXCEPT
                           !.encoded = <<"image/png">>,
                           !.toasts = <<Toast("error",
                               "Failed to download image")>>]
                 ELSE [NoEffects EXCEPT
                           !.encoded = <<"image/png">>,
                           !.downloads = <<[name |-> "edited-image.png",
                                            blob |-> blob]>>,
                           !.toasts = <<Toast("success",
                               "Image downloaded successfully")>>])

\* canvas.toDataURL('image/png') as the target of a link: "data:," for
\* a canvas without pixels
DataURL(canvas) ==
    IF canvas.width = 0 \/ canvas.height = 0
    THEN NoBlob
    ELSE [type |-> "image/png", quality |-> 100, of |-> canvas]

\* downloadAsPNG of ClipboardPhotoResizer.js on the canvas of processImage
downloadAsPNG ==
    IF call.canvas = NullCanvas
    THEN Handled("downloadAsPNG", NoArgs, NoEffects)
    ELSE Handled("downloadAsPNG",
                 Args(call.canvas, "image/png", 100, "edited-image"),
                 [NoEffects EXCEPT
                      !.downloads = <<[name |-> "edited-image.png",
                                       blob |-> DataURL(call.canvas)]>>])

\* the functions of imageExport.js called on the canvas as it is, null
\* included
CallCopyToClipboard(format) ==
    Handled("copyToClipboard",
            Args(call.canvas, format, call.jpegQuality, "none"),
            copyToClipboard(call.canvas, format, call.jpegQuality,
                            call.platform))

CallDownloadImage(format) ==
    Handled("downloadImage",
            Args(call.canvas, format, call.jpegQuality,
                 call.downloadPrefix \o "-image"),
            downloadImage(call.canvas, format, call.jpegQuality,
                          call.downloadPrefix \o "-image", call.platform))

CallCalculateImageSize(format) ==
    LET size == calculateImageSize(call.canvas, format, call.jpegQuality,
                                   call.platform.encode)
    IN  Handled("calculateImageSize",
                Args(call.canvas, format, call.jpegQuality, "none"),
                [NoEffects EXCEPT !.encoded = size.encoded,
                                  !.sizes = <<size>>,
                                  !.returned = "resolved"])

CallGetOutputSizes ==
    LET result == getOutputSizesResult(call.canvas, call.jpegQuality,
                                       call.platform.encode)
    IN  Handled("getOutputSizes",
                Args(call.canvas, "none", call.jpegQuality, "none"),
                [NoEffects EXCEPT !.encoded = result.encoded,
                                  !.sizes = <<result.sizes>>,
                                  !.returned = "resolved"])

Formats == {"image/png", "image/jpeg"}
DownloadPrefixes == {"edited", "drawn"}

\* the canvases an editor hands to the export controls: none, one without
\* pixels, one with an image drawn
ExportCanvases ==
    {NullCanvas,
     [width |-> 0, height |-> 0, src |-> "imageA", crop |-> Undefined],
     [width |-> 2, height |-> 2, src |-> "imageA", crop |-> Undefined]}

\* the regions of the Cropper, with one of zero width only
ExportCrops ==
    Crops \cup {[x |-> 1, y |-> 0, width |-> 0, height |-> 1, set |-> TRUE],
                Undefined}

\* what the browser does with the requests: whether the encoder produces
\* a blob and whether the clipboard accepts the write
Platforms == [encode : BOOLEAN, write : BOOLEAN]

ExportInit ==
    /\ InitCommon
    /\ NoTimers
    /\ limits = Limits
    /\ \E el \in {NullElement, Element("imageA"), Element("imageB")},
          c \in ExportCrops, canvas \in ExportCanvases, q \in Qualities,
          prefix \in DownloadPrefixes, platform \in Platforms :
           call = [handler |-> "none", el |-> el, crop |-> c,
                   canvas |-> canvas, jpegQuality |-> q,
                   downloadPrefix |-> prefix, platform |-> platform,
                   args |-> NoArgs, effects |-> NoEffects]

ExportNext ==
    \/ handleCopyToPNG
    \/ handleCopyToJPG
    \/ handleDownloadPNG
    \/ handleDownloadJPEG
    \/ CropperHandleCopyToPNG
    \/ CropperHandleCopyToJPG
    \/ CropperHandleDownloadPNG
    \/ CropperHandleDownloadJPEG
    \/ saveToClipboard
    \/ LegacyDownloadImage
    \/ downloadAsPNG
    \/ \E format \in Formats :
           \/ CallCopyToClipboard(format)
           \/ CallDownloadImage(format)
           \/ CallCalculateImageSize(format)
    \/ CallGetOutputSizes

\* every export handler on every image, region, canvas and platform outcome
SpecExport == ExportInit /\ [][ExportNext]_vars

(***************************************************************************)
(* The claims about export.                                                *)
(***************************************************************************)
\* the handler did nothing at all
NothingDone(e) ==
    /\ e.encoded = <<>>
    /\ e.written = <<>>
    /\ e.downloads = <<>>
    /\ e.toasts = <<>>

ZeroCrop(c) == c.set /\ (c.width = 0 \/ c.height = 0)

CropHandlers ==
    {"Cropper.handleCopyToPNG", "Cropper.handleCopyToJPG",
     "Cropper.handleDownloadPNG", "Cropper.handleDownloadJPEG",
     "saveToClipboard", "Legacy.downloadImage"}

\* C11: a crop of zero width or zero height produces no raster, and the
\* copy and download handlers of the Cropper then do nothing at all: no
\* encode, no clipboard write, no download, no error notification.
C11_ZeroCropDoesNothing ==
    (call.handler \in CropHandlers /\ call.el # NullElement
        /\ ZeroCrop(call.crop)) =>
            /\ call.args = NoArgs
            /\ NothingDone(call.effects)

LibraryCalls ==
    {"copyToClipboard", "downloadImage", "calculateImageSize",
     "getOutputSizes"}

\* C16: called with a null raster, copyToClipboard and downloadImage
\* return false without throwing and write nothing to the clipboard and
\* download nothing; calculateImageSize and getOutputSizes resolve to the
\* zero size '0.00' with no blob.
C16_NullRaster ==
    (call.handler \in LibraryCalls /\ call.args.canvas = NullCanvas) =>
        /\ ~call.effects.threw
        /\ call.effects.written = <<>>
        /\ call.effects.downloads = <<>>
        /\ (call.handler \in {"copyToClipboard", "downloadImage"} =>
                call.effects.returned = "false")
        /\ (call.handler = "calculateImageSize" =>
                /\ call.effects.returned = "resolved"
                /\ call.effects.sizes[1].blob = NoBlob
                /\ call.effects.sizes[1].sizeInMB = ZeroMB)
        /\ (call.handler = "getOutputSizes" =>
                /\ call.effects.returned = "resolved"
                /\ call.effects.sizes = <<ZeroSizes>>)

\* downloadImage has been called without a canvas and has returned false
C16_Witness ==
    /\ call.handler = "downloadImage"
    /\ call.args.canvas = NullCanvas
    /\ call.effects.returned = "false"

\* the handlers that end in copyToClipboard or downloadImage of
\* imageExport.js
CopyHandlers ==
    {"copyToClipboard", "handleCopyToPNG", "handleCopyToJPG",
     "Cropper.handleCopyToPNG", "Cropper.handleCopyToJPG"}
DownloadHandlers ==
    {"downloadImage", "handleDownloadPNG", "handleDownloadJPEG",
     "Cropper.handleDownloadPNG", "Cropper.handleDownloadJPEG"}

\* C17: a clipboard write requested in JPEG at quality q hands the
\* clipboard the JPEG encoding of the raster at quality q, not a PNG.
C17_ClipboardGetsJpeg ==
    (call.handler \in CopyHandlers /\ call.args.format = "image/jpeg"
        /\ call.effects.written # <<>>) =>
            /\ call.effects.written[1].type = "image/jpeg"
            /\ call.effects.written[1].blob.type = "image/jpeg"
            /\ call.effects.written[1].blob.quality = call.args.quality

\* the browser can carry the call out: the canvas has pixels, the encoder
\* works and, for a copy, the clipboard accepts the write
Performable ==
    /\ call.args.canvas.width > 0
    /\ call.args.canvas.height > 0
    /\ call.platform.encode
    /\ (call.handler \in CopyHandlers => call.platform.write)

\* C18: every call of copyToClipboard or downloadImage with a non-null
\* raster ends, without throwing, with exactly one notification: true and
\* a success notification exactly when the encode produced a blob and the
\* write or download was performed, false and an error notification
\* otherwise.
C18_OneNotification ==
    (call.handler \in CopyHandlers \cup DownloadHandlers
        /\ call.args.canvas # NullCanvas) =>
            /\ ~call.effects.threw
            /\ Len(call.effects.toasts) = 1
            /\ IF Performable
               THEN /\ call.effects.returned = "true"
                    /\ call.effects.toasts[1].status = "success"
                    /\ Len(call.effects.written)
                           + Len(call.effects.downloads) = 1
               ELSE /\ call.effects.returned = "false"
                    /\ call.effects.toasts[1].status = "error"
                    /\ call.effects.written = <<>>
                    /\ call.effects.downloads = <<>>

\* the clipboard has rejected a copy of a canvas that encoded well
C18_Witness ==
    /\ call.handler = "handleCopyToPNG"
    /\ call.args.canvas.width > 0
    /\ call.platform.encode
    /\ ~call.platform.write
    /\ call.effects.returned = "false"
    /\ Len(call.effects.toasts) = 1

\* the download prefix of the editor the handler belongs to
PrefixOf(handler) ==
    IF handler \in {"Cropper.handleDownloadPNG", "Cropper.handleDownloadJPEG"}
    THEN "cropped"
    ELSE IF handler \in {"downloadAsPNG", "Legacy.downloadImage"}
    THEN "edited"
    ELSE call.downloadPrefix

\* C19: every download names its file {prefix}-image.{ext} with the
\* editor's prefix, ext png exactly when the requested format is PNG and
\* jpg otherwise, and the downloaded bytes are encoded in that format.
C19_DownloadName ==
    call.effects.downloads # <<>> =>
        LET file == call.effects.downloads[1]
            ext == IF call.args.format = "image/png" THEN "png" ELSE "jpg"
        IN  /\ file.name = PrefixOf(call.handler) \o "-image." \o ext
            /\ file.blob.type = call.args.format

(***************************************************************************)
(* Resize: createResizedCanvas of imageExport.js and processImage of the   *)
(* Resizer, as functions of the image, its dimensions and the scale.       *)
(***************************************************************************)
DefaultCanvasWidth == 300
DefaultCanvasHeight == 150

\* the lowest drop bits of the significand of x, limb by limb: zero
\* exactly when Truncated(x, drop) has left nothing out
DroppedBits(x, drop) ==
    LET part(i) == LET k == drop - LimbBits * (5 - i)
                   IN  IF k <= 0 THEN 0
                       ELSE IF k >= LimbBits THEN x.limbs[i]
                       ELSE x.limbs[i] % (2 ^ k)
    IN  part(1) + part(2) + part(3) + part(4) + part(5)

\* Math.round(-x) for a double x >= 0: a half rounds towards +Infinity,
\* and -0 is 0
MathRoundNegated(x) ==
    IF x = ZeroDouble \/ x.exp < -1 THEN 0
    ELSE IF x.exp = -1
    THEN (IF x.limbs = <<1, 0, 0, 0, 0>> THEN 0 ELSE -1)
    ELSE LET fraction == 4 * LimbBits - x.exp
             half == Truncated(x, fraction - 1) % 2
         IN  0 - (Truncated(x, fraction)
                    + (IF half = 1 /\ DroppedBits(x, fraction - 1) # 0
                       THEN 1 ELSE 0))

\* Math.round(dimension * scaleFactor) with scaleFactor = scale / 100
ScaledSize(dimension, scale) ==
    IF scale >= 0
    THEN MathRound(Multiply(dimension, Divide(scale, 100)))
    ELSE MathRoundNegated(Multiply(dimension, Divide(0 - scale, 100)))

\* canvas.width = n, canvas.height = n: a negative number is out of the
\* attribute's range and sets the default
CanvasSize(n, default) == IF n < 0 THEN default ELSE n

\* createResizedCanvas(image, dimensions, scale) of imageExport.js
createResizedCanvas(img, dimensions, scale) ==
    IF img = NoImage \/ scale <= 0
    THEN NullCanvas
    ELSE [width |-> CanvasSize(ScaledSize(dimensions.width, scale),
                               DefaultCanvasWidth),
          height |-> CanvasSize(ScaledSize(dimensions.height, scale),
                                DefaultCanvasHeight),
          src |-> img, crop |-> Undefined]

\* processImage of ClipboardPhotoResizer.js: only a missing image returns
\* null
processImage(img, dimensions, scale) ==
    IF img = NoImage
    THEN NullCanvas
    ELSE [width |-> CanvasSize(ScaledSize(dimensions.width, scale),
                               DefaultCanvasWidth),
          height |-> CanvasSize(ScaledSize(dimensions.height, scale),
                                DefaultCanvasHeight),
          src |-> img, crop |-> Undefined]

\* natural widths and heights: the small ones, the 400x300 scenario and
\* 25, which at 58% is half way between 14 and 15
Dimensions == (1 .. MaxDim) \cup {25, 300, 400}

\* the scales of the slider and two it cannot reach
PositiveScales == {1, 50, 58, 100}
Scales == PositiveScales \cup {0, -50}

Resized(fn, canvas) ==
    /\ call' = [call EXCEPT !.fn = fn, !.out = canvas]
    /\ UNCHANGED <<image, crop, imageRef, outputSizes, jpegQuality, encodes,
                   lastOp, limits>>
    /\ UNCHANGED drawerVars
    /\ UNCHANGED cropperVars

CallCreateResizedCanvas ==
    Resized("createResizedCanvas",
            createResizedCanvas(call.image, call.dimensions, call.scale))

CallProcessImage ==
    Resized("processImage",
            processImage(call.image, call.dimensions, call.scale))

ResizeInit ==
    /\ InitCommon
    /\ NoTimers
    /\ limits = Limits
    /\ \E img \in {NoImage, "imageA"}, w \in Dimensions, h \in Dimensions,
          s \in Scales :
           call = [fn |-> "none", image |-> img,
                   dimensions |-> [width |-> w, height |-> h],
                   scale |-> s, out |-> NullCanvas]

ResizeNext ==
    \/ CallCreateResizedCanvas
    \/ CallProcessImage

\* both resize functions on every image, size and scale
SpecResize == ResizeInit /\ [][ResizeNext]_vars

(***************************************************************************)
(* The claims about resize.                                                *)
(***************************************************************************)
\* C12: for every image of natural size W x H and every scale s > 0 the
\* resize output is exactly round(W * s / 100) by round(H * s / 100); at
\* s = 100 it is W x H, and 400x300 at s = 50 gives 200x150.
C12_ResizedDimensions ==
    (call.fn # "none" /\ call.image # NoImage /\ call.scale > 0) =>
        /\ call.out # NullCanvas
        /\ IsRounded(call.out.width, call.dimensions.width * call.scale, 100)
        /\ IsRounded(call.out.height, call.dimensions.height * call.scale,
                     100)
        /\ (call.scale = 100 =>
                /\ call.out.width = call.dimensions.width
                /\ call.out.height = call.dimensions.height)
        /\ (call.dimensions = [width |-> 400, height |-> 300]
                /\ call.scale = 50 =>
                    call.out.width = 200 /\ call.out.height = 150)

\* C13: a resize with scale <= 0 produces no raster, by createResizedCanvas
\* and by processImage of the Resizer alike, whatever the slider allows.
C13_NonPositiveScaleNoRaster ==
    (call.fn # "none" /\ call.scale <= 0) => call.out = NullCanvas

(***************************************************************************)
(* Input: the paste and file handlers of useImageUpload (Cropper, Drawer)  *)
(* and the paste handler of the Resizer.  The session is image, crop,      *)
(* drawingHistory, currentHistoryIndex, canvasPx and outputSizes; the      *)
(* Resizer's dimensions and its Image being decoded are held in call.      *)
(***************************************************************************)
MinDimension == 10

\* the decoded size of an image: imageA and imageB as the Cropper shows
\* them, imageL just large enough for the Resizer, imageS the 400x300
\* photo, imageW wide and flat
NaturalSize(img) ==
    IF img = "imageL" THEN [width |-> 12, height |-> 10]
    ELSE IF img = "imageS" THEN [width |-> 400, height |-> 300]
    ELSE IF img = "imageW" THEN [width |-> 12, height |-> 4]
    ELSE IF img = NoImage THEN [width |-> 0, height |-> 0]
    ELSE [width |-> Element(img).naturalWidth,
          height |-> Element(img).naturalHeight]

UploadImages == {"imageA", "imageL", "imageW"}

\* clipboard items and files: their MIME type and, for an image, the image
NoItem == [type |-> "none", img |-> NoImage]
TextItem == [type |-> "text/plain", img |-> NoImage]
ImageItem(img) == [type |-> "image/png", img |-> img]

\* item.type.indexOf('image') !== -1, item.type.startsWith('image/'),
\* file.type.startsWith('image/')
IsImageType(type) == type = "image/png"

\* Array.from(items).find(...): the first image item, if any
FindImage(items) ==
    IF \E i \in 1 .. Len(items) : IsImageType(items[i].type)
    THEN items[CHOOSE i \in 1 .. Len(items) :
                   /\ IsImageType(items[i].type)
                   /\ \A j \in 1 .. i - 1 : ~IsImageType(items[j].type)]
    ELSE NoItem

\* paste events: without an item list (clipboardData?.items undefined),
\* with an empty one, with text, with text and an image, with an image
PasteEvents ==
    {[kind |-> "paste", hasItems |-> FALSE, items |-> <<>>],
     [kind |-> "paste", hasItems |-> TRUE, items |-> <<>>],
     [kind |-> "paste", hasItems |-> TRUE, items |-> <<TextItem>>]}
    \cup {[kind |-> "paste", hasItems |-> TRUE,
           items |-> <<TextItem, ImageItem(img)>>] : img \in UploadImages}

\* change events of the file input: no file, a text file, an image file
FileEvents ==
    {[kind |-> "file", hasItems |-> TRUE, items |-> <<>>],
     [kind |-> "file", hasItems |-> TRUE, items |-> <<TextItem>>]}
    \cup {[kind |-> "file", hasItems |-> TRUE,
           items |-> <<ImageItem(img)>>] : img \in UploadImages}

NoEvent == [kind |-> "none", hasItems |-> FALSE, items |-> <<>>]

NoImageFound == Toast("error", "No image found in clipboard")
NotAnImage == Toast("error", "Selected file is not an image")
ImageTooSmall ==
    Toast("error", "Image dimensions must be at least 10x10 pixels")

\* the handler has returned: the event it handled and what it showed
\* the object URL the handler made for the image it found:
\* URL.createObjectURL(blob); no handler revokes one
CreatedURLs(ev) ==
    IF FindImage(ev.items) = NoItem THEN {} ELSE {FindImage(ev.items).img}

Received(ev, toasts, threw, dimensions, loading) ==
    call' = [call EXCEPT !.event = ev, !.toasts = toasts, !.threw = threw,
                         !.dimensions = dimensions, !.loading = loading,
                         !.objectURLs = @ \cup CreatedURLs(ev)]

SessionUnchanged ==
    /\ UNCHANGED <<image, crop, canvasPx, drawingHistory,
                   currentHistoryIndex, outputSizes>>
    /\ call'.dimensions = call.dimensions

UploadFrame ==
    UNCHANGED <<crop, imageRef, outputSizes, jpegQuality, canvasRef,
                canvasPx, isDrawing, drawingHistory, currentHistoryIndex,
                imageLoads, undoLoads, encodes, lastOp, run, limits>>
        /\ UNCHANGED cropperVars

\* handlePaste of useImageUpload that returns without a notification
handlePaste_Silent(ev) ==
    /\ call.editor \in {"Cropper", "Drawer"}
    /\ LET imageItem == FindImage(ev.items)
       IN  /\ image' = IF ev.hasItems /\ imageItem # NoItem
                       THEN imageItem.img ELSE image
           /\ Received(ev, <<>>, FALSE, call.dimensions, call.loading)
    /\ UploadFrame

\* handlePaste of useImageUpload
handlePaste(ev) ==
    /\ call.editor \in {"Cropper", "Drawer"}
    /\ LET imageItem == FindImage(ev.items)
       IN  IF ~ev.hasItems
           THEN /\ image' = image
                /\ Received(ev, <<>>, FALSE, call.dimensions, call.loading)
           ELSE IF imageItem # NoItem
           THEN /\ image' = imageItem.img
                /\ Received(ev, <<>>, FALSE, call.dimensions, call.loading)
           ELSE /\ image' = image
                /\ Received(ev, <<NoImageFound>>, FALSE, call.dimensions,
                            call.loading)
    /\ UploadFrame

\* handleFileUpload of useImageUpload
handleFileUpload(ev) ==
    /\ call.editor \in {"Cropper", "Drawer"}
    /\ LET file == IF ev.items = <<>> THEN NoItem ELSE ev.items[1]
       IN  IF file # NoItem /\ IsImageType(file.type)
           THEN /\ image' = file.img
                /\ Received(ev, <<>>, FALSE, call.dimensions, call.loading)
           ELSE IF file # NoItem
           THEN /\ image' = image
                /\ Received(ev, <<NotAnImage>>, FALSE, call.dimensions,
                            call.loading)
           ELSE /\ image' = image
                /\ Received(ev, <<>>, FALSE, call.dimensions, call.loading)
    /\ UploadFrame

\* handlePaste of ClipboardPhotoResizer.js up to img.src = ...: spreading
\* a missing item list throws; one decode is followed at a time
ResizerHandlePaste(ev) ==
    /\ call.editor = "Resizer"
    /\ call.loading = NoItem
    /\ image' = image
    /\ LET item == FindImage(ev.items)
       IN  IF ~ev.hasItems
           THEN Received(ev, <<>>, TRUE, call.dimensions, call.loading)
           ELSE IF item = NoItem
           THEN Received(ev, <<NoImageFound>>, FALSE, call.dimensions,
                         call.loading)
           ELSE Received(ev, <<>>, FALSE, call.dimensions, item)
    /\ UploadFrame

\* img.onload of the Resizer's handlePaste
ResizerImageLoaded ==
    /\ call.editor = "Resizer"
    /\ call.loading # NoItem
    /\ LET size == NaturalSize(call.loading.img)
       IN  IF size.width < MinDimension \/ size.height < MinDimension
           THEN /\ image' = image
                /\ Received(call.event, <<ImageTooSmall>>, FALSE,
                            call.dimensions, NoItem)
           ELSE /\ image' = call.loading.img
                /\ Received(call.event, <<>>, FALSE, size, NoItem)
    /\ UploadFrame

ResetEvent == [kind |-> "reset", hasItems |-> FALSE, items |-> <<>>]
ResetComplete == Toast("info", "Ready for a new image")

\* resetApp of the editor the input handlers belong to: the state setters
\* of the Cropper and the Drawer, and those of the Resizer with its toast;
\* an Image the Resizer is still decoding loads later all the same
UploadResetApp ==
    /\ image' = NoImage
    /\ crop' = Undefined
    /\ imageRef' = NullRef
    /\ outputSizes' = ZeroSizes
    /\ canvasPx' = BlankRaster
    /\ isDrawing' = FALSE
    /\ drawingHistory' = <<>>
    /\ currentHistoryIndex' = -1
    /\ call' = [call EXCEPT
                    !.event = ResetEvent,
                    !.toasts = IF call.editor = "Resizer"
                               THEN <<ResetComplete>> ELSE <<>>,
                    !.threw = FALSE,
                    !.dimensions = NaturalSize(NoImage)]
    /\ UNCHANGED <<jpegQuality, canvasRef, imageLoads, undoLoads, encodes,
                   lastOp, run, limits>>
    /\ UNCHANGED cropperVars

\* the sessions an input can arrive in: nothing loaded, or imageL loaded
\* and, in the Cropper, a region selected and measured, in the Drawer, its
\* first snapshot taken
UploadInit ==
    /\ NoTimers
    /\ limits = Limits
    /\ imageRef = NullRef
    /\ jpegQuality = DefaultJpegQuality
    /\ canvasRef = NullRef
    /\ isDrawing = FALSE
    /\ imageLoads = EmptyBag
    /\ undoLoads = EmptyBag
    /\ encodes = EmptyBag
    /\ elemSrc = NoElements
    /\ lastOp = "other"
    /\ run = NoRun
    /\ lastStarted = ZeroSizes
    /\ \E editor \in {"Cropper", "Drawer", "Resizer"},
          img \in {NoImage, "imageL"} :
           /\ image = img
           /\ crop \in IF editor = "Cropper" /\ img # NoImage
                       THEN Crops \cup {Undefined} ELSE {Undefined}
           /\ canvasPx = IF editor = "Drawer" /\ img # NoImage
                         THEN ImageRaster(img) ELSE BlankRaster
           /\ drawingHistory = IF editor = "Drawer" /\ img # NoImage
                               THEN <<toDataURL(ImageRaster(img))>>
                               ELSE <<>>
           /\ currentHistoryIndex = Len(drawingHistory) - 1
           /\ outputSizes \in
                  IF editor = "Resizer" \/ img = NoImage
                  THEN {ZeroSizes}
                  ELSE {ZeroSizes,
                        getOutputSizes(ImageRaster(img),
                                       DefaultJpegQuality)}
           /\ call = [editor |-> editor, event |-> NoEvent,
                      toasts |-> <<>>, threw |-> FALSE,
                      dimensions |-> IF editor = "Resizer"
                                     THEN NaturalSize(img)
                                     ELSE NaturalSize(NoImage),
                      loading |-> NoItem,
                      objectURLs |-> IF img = NoImage THEN {} ELSE {img}]

UploadNext ==
    \/ \E ev \in PasteEvents :
           \/ handlePaste(ev)
           \/ ResizerHandlePaste(ev)
    \/ \E ev \in FileEvents : handleFileUpload(ev)
    \/ ResizerImageLoaded
    \/ UploadResetApp

\* every input event in every editor and session
SpecUpload == UploadInit /\ [][UploadNext]_vars

(***************************************************************************)
(* The claims about input.                                                 *)
(***************************************************************************)
\* the event has an item list or a file, and none of them is an image
CarriesNoImage(ev) ==
    /\ ev.kind # "none"
    /\ ev.hasItems
    /\ (ev.kind = "file" => ev.items # <<>>)
    /\ FindImage(ev.items) = NoItem

C15_MinimumDimensions ==
    image # NoImage =>
        /\ NaturalSize(image).width >= MinDimension
        /\ NaturalSize(image).height >= MinDimension

\* C21: the object URL created for a source image on paste or upload is
\* released when the session is reset: after a reset no object URL this
\* session created for a source image is still unreleased.
C21_ResetReleasesObjectURLs ==
    call.event = ResetEvent => call.objectURLs = {}

(***************************************************************************)
(* The claims about the Drawer's raster, its history and its estimates.    *)
(***************************************************************************)
\* C24: whenever no stroke is in progress and no undo restore (or image
\* load) is pending, the canvas raster equals
\* drawingHistory[currentHistoryIndex], for every interleaving of undo's
\* asynchronous snapshot load with later strokes and later undos.
C24_RasterIsCurrentSnapshot ==
    ( /\ ~isDrawing
      /\ BagIsEmpty(undoLoads)
      /\ BagIsEmpty(imageLoads)
      /\ canvasRef # NullRef
      /\ currentHistoryIndex >= 0 ) =>
        toDataURL(canvasPx) = drawingHistory[currentHistoryIndex + 1]

\* C25: when a new source image finishes loading, a paste while another
\* image is loaded included, drawingHistory holds exactly one snapshot,
\* that of the new image, and currentHistoryIndex = 0: undo can never
\* restore a snapshot of a previously loaded image.
C25_LoadStartsHistoryAfresh ==
    [][\A l \in BagToSet(imageLoads) :
          (DrawerImageLoaded(l) /\ l.canvas = canvasRef) =>
              /\ drawingHistory' = <<toDataURL(ImageRaster(l.img))>>
              /\ currentHistoryIndex' = 0]_vars

\* C28: every operation that changes the raster triggers a recompute of
\* the size estimates: once undo has restored a snapshot the displayed
\* sizes are those of the restored raster, or an estimate of the restored
\* raster is on its way.
C28_UndoRecomputesSizes ==
    [][\A src \in BagToSet(undoLoads) :
          (UndoImageLoaded(src) /\ canvasRef # NullRef) =>
              \/ outputSizes' = getOutputSizes(canvasPx', jpegQuality')
              \/ \E e \in BagToSet(encodes') :
                     e = [px |-> canvasPx', quality |-> jpegQuality']]_vars

(***************************************************************************)
(* The claims about what a new image and a reset leave behind.             *)
(***************************************************************************)
\* C29: in the Cropper, loading a new source image while one is loaded
\* discards the previous crop region and the previous size estimates, as
\* reset does, so that no export and no displayed estimate combines a crop
\* chosen on the old image with the new image.
C29_NewImageDiscardsCrop ==
    [][\A img \in Images :
          (CropperPaste(img) /\ image # NoImage) =>
              /\ crop' = Undefined
              /\ outputSizes' = ZeroSizes]_vars

\* C30: after reset every session state variable has its initial value: no
\* source image, no crop, size estimates 0.00, JPEG quality 90, the
\* history empty with currentHistoryIndex = -1.
C30_ResetRestoresInitialState ==
    [][CropperResetApp =>
          /\ image' = NoImage
          /\ crop' = Undefined
          /\ imageRef' = NullRef
          /\ outputSizes' = ZeroSizes
          /\ jpegQuality' = DefaultJpegQuality
          /\ drawingHistory' = <<>>
          /\ currentHistoryIndex' = -1]_vars

(***************************************************************************)
(* The claim about the smallest resize output.                             *)
(***************************************************************************)
\* C26: for every image the Resizer accepts (width >= 10 and height >= 10)
\* and every scale of the slider (1..100) the resize output is at least
\* one pixel wide and one pixel high.
C26_OutputAtLeastOnePixel ==
    ( /\ call.fn # "none"
      /\ call.image # NoImage
      /\ call.dimensions.width >= MinDimension
      /\ call.dimensions.height >= MinDimension
      /\ call.scale \in 1 .. 100 ) =>
        /\ call.out # NullCanvas
        /\ call.out.width >= 1
        /\ call.out.height >= 1

(***************************************************************************)
(* The Resizer: the preview effect and the copy button.  The Resizer's     *)
(* dimensions, scale, fileSize and previewUrl, the runs of its effect      *)
(* whose encode is pending and the latest invocation of copyToClipboard    *)
(* are held in call; image is its source image.                            *)
(***************************************************************************)
MaxEffects == 2         \* runs of the effect with an encode pending

ResizerImages == {"imageL", "imageS"}
ResizerScales == {1, 50, 100}
DefaultScale == 100

NullUrl == [type |-> "null", quality |-> 0, of |-> NullCanvas]
ZeroBytes == [measured |-> "nothing", of |-> NoBlob]
\* file.size of the pasted file
FileBytes(img) ==
    [measured |-> "file",
     of |-> [type |-> "image/png", quality |-> 100,
             of |-> [width |-> NaturalSize(img).width,
                     height |-> NaturalSize(img).height,
                     src |-> img, crop |-> Undefined]]]
\* blob.size
BlobBytes(blob) == [measured |-> "blob", of |-> blob]

NoCopy ==
    [phase |-> "idle", src |-> NoBlob, attempts |-> <<>>,
     outcomes |-> <<>>, written |-> <<>>, downloads |-> <<>>,
     toasts |-> <<>>]

\* the closure of an effect run no pending run still uses
FreshEffect(effects) ==
    CHOOSE n \in 1 .. (Cardinality(effects) + 1) :
        /\ \A r \in effects : r.id # n
        /\ \A m \in 1 .. (n - 1) : \E r \in effects : r.id = m

\* the [scale, processImage, image] effect re-running: the cleanup of the
\* previous run sets its isCurrent to false, then updatePreviewAndSize
\* runs up to its await
ResizerEffect(effects, previewUrl, img, dimensions, scale) ==
    LET cleaned == {[r EXCEPT !.isCurrent = FALSE] : r \in effects}
        canvas == processImage(img, dimensions, scale)
    IN  IF canvas = NullCanvas
        THEN [effects |-> cleaned, previewUrl |-> previewUrl]
        ELSE [effects |-> cleaned \cup
                  {[id |-> FreshEffect(cleaned), canvas |-> canvas,
                    isCurrent |-> TRUE]},
              previewUrl |-> DataURL(canvas)]

ResizerFrame ==
    /\ UNCHANGED <<crop, imageRef, outputSizes, jpegQuality, encodes,
                   lastOp, limits>>
    /\ UNCHANGED drawerVars
    /\ UNCHANGED cropperVars

\* img.onload of handlePaste for an image of at least 10x10: setImage,
\* setDimensions, setFileSize(file.size) in one render, then the effect
ResizerLoad(img) ==
    /\ Cardinality(call.effects) < MaxEffects
    /\ image' = img
    /\ LET e == ResizerEffect(call.effects, call.previewUrl, img,
                              NaturalSize(img), call.scale)
       IN  call' = [call EXCEPT !.dimensions = NaturalSize(img),
                                !.fileSize = FileBytes(img),
                                !.effects = e.effects,
                                !.previewUrl = e.previewUrl]
    /\ ResizerFrame

\* the slider's onChange: setScale(value), then the effect
ResizerSetScale(s) ==
    /\ image # NoImage
    /\ s # call.scale
    /\ Cardinality(call.effects) < MaxEffects
    /\ image' = image
    /\ LET e == ResizerEffect(call.effects, call.previewUrl, image,
                              call.dimensions, s)
       IN  call' = [call EXCEPT !.scale = s,
                                !.effects = e.effects,
                                !.previewUrl = e.previewUrl]
    /\ ResizerFrame

\* what the continuation of updatePreviewAndSize does with its blob:
\* if (isCurrent && blob) setFileSize(blob.size)
fileSizeAfter(fileSize, r) ==
    LET blob == toBlob(r.canvas, "image/png", 100, TRUE)
    IN  IF r.isCurrent /\ blob # NoBlob THEN BlobBytes(blob) ELSE fileSize

\* canvas.toBlob of an effect run calls back
PreviewEncoded(r) ==
    /\ r \in call.effects
    /\ image' = image
    /\ call' = [call EXCEPT !.effects = @ \ {r},
                            !.fileSize = fileSizeAfter(@, r)]
    /\ ResizerFrame

\* resetApp of ClipboardPhotoResizer.js; image changes, so the effect
\* re-runs and finds no image
ResizerResetApp ==
    /\ image # NoImage
    /\ image' = NoImage
    /\ LET e == ResizerEffect(call.effects, NullUrl, NoImage,
                              NaturalSize(NoImage), DefaultScale)
       IN  call' = [call EXCEPT !.dimensions = NaturalSize(NoImage),
                                !.scale = DefaultScale,
                                !.fileSize = ZeroBytes,
                                !.effects = e.effects,
                                !.previewUrl = e.previewUrl,
                                !.toast = ResetComplete]
    /\ ResizerFrame

\* the targets of the Resizer's copy, in the order of its nested try blocks
CopyOrder == <<"clipboard image", "clipboard text", "download">>

\* copyToClipboard of ClipboardPhotoResizer.js up to its first await: no
\* canvas returns at once; otherwise tempImg.src = canvas.toDataURL() and
\* the handler waits for tempImg.onload, which is its only listener
copyStarted(canvas) ==
    IF canvas = NullCanvas
    THEN [NoCopy EXCEPT !.phase = "returned"]
    ELSE [NoCopy EXCEPT !.phase = "loading", !.src = DataURL(canvas)]

\* the temporary image has loaded: the temporary canvas is drawn and
\* toBlob is called; without a 2d context drawImage throws and the outer
\* catch shows the error
tempImgLoaded(c, ctx) ==
    IF ctx
    THEN [c EXCEPT !.phase = "encoding"]
    ELSE [c EXCEPT !.phase = "done",
                   !.toasts = Append(@, Toast("error",
                       "Failed to copy to clipboard. Your browser may be restricting clipboard access."))]

\* the toBlob callback up to its await: navigator.clipboard.write
tempCanvasEncoded(c) ==
    [c EXCEPT !.phase = "writing",
              !.attempts = Append(@, CopyOrder[1])]

\* a copy that goes on to writeText whether the image was written or not
clipboardWriteSettled_NoStop(c, ok) ==
    [c EXCEPT !.phase = "writingText",
              !.outcomes = Append(@, ok),
              !.written = IF ok
                          THEN Append(@, toBlob(c.src.of, "image/png", 100,
                                                TRUE))
                          ELSE @,
              !.attempts = Append(@, CopyOrder[2])]

\* navigator.clipboard.write has settled: the success toast, or the catch
\* that calls navigator.clipboard.writeText(pngDataUrl)
clipboardWriteSettled(c, ok) ==
    IF ok
    THEN [c EXCEPT !.phase = "done",
                   !.outcomes = Append(@, TRUE),
                   !.written = Append(@, toBlob(c.src.of, "image/png", 100,
                                                TRUE)),
                   !.toasts = Append(@, Toast("success",
                                              "Image copied to clipboard"))]
    ELSE [c EXCEPT !.phase = "writingText",
                   !.outcomes = Append(@, FALSE),
                   !.attempts = Append(@, CopyOrder[2])]

\* navigator.clipboard.writeText has settled: the success toast, or the
\* catch that downloads edited-image.png and warns
writeTextSettled(c, ok) ==
    IF ok
    THEN [c EXCEPT !.phase = "done",
                   !.outcomes = Append(@, TRUE),
                   !.written = Append(@, DataURL(c.src.of)),
                   !.toasts = Append(@, Toast("success",
                                              "Image copied as data URL"))]
    ELSE [c EXCEPT !.phase = "done",
                   !.outcomes = Append(@, FALSE),
                   !.attempts = Append(@, CopyOrder[3]),
                   !.downloads = Append(@,
                       [name |-> "edited-image.png",
                        blob |-> toBlob(c.src.of, "image/png", 100, TRUE)]),
                   !.toasts = Append(@, Toast("warning",
                       "Image has been downloaded instead. Your browser may be restricting clipboard access."))]

\* a step of the latest invocation of copyToClipboard
CopyStep(c) ==
    /\ image' = image
    /\ call' = [call EXCEPT
                    !.copy = c,
                    !.toast = IF Len(c.toasts) > Len(call.copy.toasts)
                              THEN c.toasts[Len(c.toasts)] ELSE @]
    /\ ResizerFrame

\* the Copy button; one invocation is followed at a time
ResizerCopy ==
    /\ call.copy.phase \in {"idle", "returned", "done"}
    /\ CopyStep(copyStarted(processImage(image, call.dimensions,
                                         call.scale)))

\* tempImg.onload; an image whose source is "data:," never loads
TempImgLoaded(ctx) ==
    /\ call.copy.phase = "loading"
    /\ call.copy.src # NoBlob
    /\ CopyStep(tempImgLoaded(call.copy, ctx))

TempCanvasEncoded ==
    /\ call.copy.phase = "encoding"
    /\ CopyStep(tempCanvasEncoded(call.copy))

ClipboardWriteSettled(ok) ==
    /\ call.copy.phase = "writing"
    /\ CopyStep(clipboardWriteSettled(call.copy, ok))

WriteTextSettled(ok) ==
    /\ call.copy.phase = "writingText"
    /\ CopyStep(writeTextSettled(call.copy, ok))

\* what the latest invocation of copyToClipboard can still do
CopyContinues ==
    \/ \E ctx \in BOOLEAN : TempImgLoaded(ctx)
    \/ TempCanvasEncoded
    \/ \E ok \in BOOLEAN : ClipboardWriteSettled(ok)
    \/ \E ok \in BOOLEAN : WriteTextSettled(ok)

ResizerInit ==
    /\ InitCommon
    /\ NoTimers
    /\ limits = Limits
    /\ call = [dimensions |-> NaturalSize(NoImage), scale |-> DefaultScale,
               fileSize |-> ZeroBytes, previewUrl |-> NullUrl,
               effects |-> {}, copy |-> NoCopy,
               toast |-> Toast("none", "none")]

ResizerNext ==
    \/ \E img \in ResizerImages : ResizerLoad(img)
    \/ \E s \in ResizerScales : ResizerSetScale(s)
    \/ \E r \in call.effects : PreviewEncoded(r)
    \/ ResizerResetApp
    \/ ResizerCopy
    \/ \E ctx \in BOOLEAN : TempImgLoaded(ctx)
    \/ TempCanvasEncoded
    \/ \E ok \in BOOLEAN : ClipboardWriteSettled(ok)
    \/ \E ok \in BOOLEAN : WriteTextSettled(ok)

\* the Resizer: paste, slider, reset and copy with their callbacks
SpecResizer == ResizerInit /\ [][ResizerNext]_vars

\* the callbacks of a copy in progress are eventually delivered
SpecResizerFair == SpecResizer /\ WF_vars(CopyContinues)

(***************************************************************************)
(* The claims about the Resizer.                                           *)
(***************************************************************************)
\* C22: after the changes of scale and image have stopped and every encode
\* has called back, in whatever order, fileSize is the encoded size of the
\* output at the latest scale.
C22_FileSizeIsLatest ==
    (call.effects = {} /\ image # NoImage) =>
        call.fileSize =
            BlobBytes([type |-> "image/png", quality |-> 100,
                       of |-> processImage(image, call.dimensions,
                                           call.scale)])

\* C23: the copy tries its targets in a fixed order, the clipboard as a
\* PNG image, then the PNG data URL as clipboard text, then the download
\* of edited-image.png with a warning; a later target is attempted only
\* after every earlier one has failed.
C23_CopyFallbackOrder ==
    LET c == call.copy
    IN  /\ c.attempts = SubSeq(CopyOrder, 1, Len(c.attempts))
        /\ \A i \in 2 .. Len(c.attempts) :
               i - 1 <= Len(c.outcomes) /\ ~c.outcomes[i - 1]
        /\ c.downloads # <<>> =>
               /\ c.attempts = CopyOrder
               /\ c.downloads[1].name = "edited-image.png"
               /\ c.toasts[1].status = "warning"

\* both clipboard targets failed and the image was downloaded
C23_Witness ==
    /\ call.copy.phase = "done"
    /\ call.copy.outcomes = <<FALSE, FALSE>>
    /\ Len(call.copy.downloads) = 1

\* C27: every invocation of the copy action with an image loaded ends in
\* a notification: an invocation that has not notified yet has a step
\* left to take, the case of a temporary image that fails to load
\* included.
C27_CopyNotifies ==
    (call.copy.phase \notin {"idle", "returned"}
        /\ call.copy.toasts = <<>>) => ENABLED CopyContinues

====
